---- MODULE Spec2Model ----
(***************************************************************************)
(* Emotion-based music player: the playback controller and song matcher    *)
(* (src/src/music_player.py), the emotion classifier adapter               *)
(* (src/src/emotion_detector.py) and the application's two threads         *)
(* (src/src/main.py).                                                      *)
(*                                                                         *)
(* Units.  Times are in half seconds, volumes in tenths (0.5 is 5, 1.0 is   *)
(* 10), valence and arousal in tenths (0.8 is 8).  An audio path is        *)
(* identified with the song id it is built from (music_player.py:103).     *)
(***************************************************************************)
EXTENDS Integers, Sequences, FiniteSets, TLC

VARIABLES
    current_song,     \* MusicPlayer.current_song: a path or None
    is_playing,       \* MusicPlayer.is_playing
    volume,           \* MusicPlayer.volume
    last_play_time,   \* MusicPlayer.last_play_time
    merged_df,        \* MusicPlayer.merged_df: the song table, a sequence of rows
    mixer,            \* pygame mixer.music: [loaded, busy, volume]
    now,              \* the wall clock read by time.time()
    files,            \* the audio files on disk: path -> "missing" | "empty" | "ok"
    last,             \* the last completed call: operation, arguments, result, state before
    is_running,       \* EmotionMusicPlayerApp.is_running
    cap,              \* the capture device: "open" | "released"
    window,           \* the Tk root window: "open" | "destroyed"
    pc,               \* position of each thread of the application
    loc,              \* locals of the thread's frames (update_frame, play_song, stop_song)
    hist              \* what the application's run has done so far

playerVars == <<current_song, is_playing, volume, last_play_time>>
appVars    == <<is_running, cap, window, pc, loc, hist>>
vars == <<current_song, is_playing, volume, last_play_time, merged_df, mixer,
          now, files, last, is_running, cap, window, pc, loc, hist>>

(***************************************************************************)
(* Bounds of the model and constants of the program.                       *)
(***************************************************************************)
NumPaths == 2             \* audio paths (song ids) 1..NumPaths
MaxTime == 5              \* the clock stops advancing here
MaxRows == 3              \* rows of the song table
min_play_interval == 2    \* 1.0 s
None == 0                 \* Python's None where a path or a label is expected

Paths == 1..NumPaths
FileStates == {"missing", "empty", "ok"}
BackendCalls == {"stop", "load", "set_volume", "play"}
VolumeInputs == {-10, 3, 20}

Range(s) == {s[i] : i \in DOMAIN s}
Max2(a, b) == IF a >= b THEN a ELSE b
Min2(a, b) == IF a <= b THEN a ELSE b

\* The playback state as one record.
Player == [current_song |-> current_song, is_playing |-> is_playing,
           volume |-> volume, last_play_time |-> last_play_time]

(***************************************************************************)
(* The playback controller.  `raises` is the set of backend calls that     *)
(* would raise during the call being modelled.  Each operator gives what   *)
(* the call leaves: p the playback state, m the mixer, calls the backend   *)
(* calls issued in order, raised those of them that raised, ret the value  *)
(* returned.  play_song reads the clock once, on entry (line 183); its     *)
(* 0.1 s settle delay (line 205) is shorter than a clock unit and only     *)
(* delays the return.                                                      *)
(***************************************************************************)
\* stop_song forgetting to clear current_song
stop_song_KeepsSong(p, m, raises) ==
    IF p.is_playing /\ "stop" \notin raises
    THEN [p |-> [p EXCEPT !.is_playing = FALSE], m |-> [m EXCEPT !.busy = FALSE],
          calls |-> <<"stop">>, raised |-> {}, ret |-> "None"]
    ELSE [p |-> p, m |-> m, calls |-> IF p.is_playing THEN <<"stop">> ELSE <<>>,
          raised |-> IF p.is_playing THEN {"stop"} ELSE {}, ret |-> "None"]

\* stop_song without the is_playing guard
stop_song_Unguarded(p, m, raises) ==
    IF "stop" \in raises
    THEN [p |-> p, m |-> m, calls |-> <<"stop">>, raised |-> {"stop"}, ret |-> "None"]
    ELSE [p |-> [p EXCEPT !.current_song = None, !.is_playing = FALSE],
          m |-> [m EXCEPT !.busy = FALSE],
          calls |-> <<"stop">>, raised |-> {}, ret |-> "None"]

stop_song(p, m, raises) ==
    IF p.is_playing
    THEN IF "stop" \in raises
         THEN [p |-> p, m |-> m, calls |-> <<"stop">>, raised |-> {"stop"},
               ret |-> "None"]
         ELSE [p |-> [p EXCEPT !.current_song = None, !.is_playing = FALSE],
               m |-> [m EXCEPT !.busy = FALSE],
               calls |-> <<"stop">>, raised |-> {}, ret |-> "None"]
    ELSE [p |-> p, m |-> m, calls |-> <<>>, raised |-> {}, ret |-> "None"]

\* lines 207-220: load, set_volume, play, then the three assignments; s is what
\* the call has done before them.
start_track(s, current_time, song_path, raises) ==
    IF "load" \in raises
    THEN [s EXCEPT !.calls = @ \o <<"load">>, !.raised = @ \cup {"load"},
                   !.ret = "False"]
    ELSE LET m1 == [s.m EXCEPT !.loaded = song_path, !.busy = FALSE] IN
      IF "set_volume" \in raises
      THEN [s EXCEPT !.m = m1, !.calls = @ \o <<"load", "set_volume">>,
                     !.raised = @ \cup {"set_volume"}, !.ret = "False"]
      ELSE LET m2 == [m1 EXCEPT !.volume = s.p.volume] IN
        IF "play" \in raises
        THEN [s EXCEPT !.m = m2, !.calls = @ \o <<"load", "set_volume", "play">>,
                       !.raised = @ \cup {"play"}, !.ret = "False"]
        ELSE [s EXCEPT !.p = [@ EXCEPT !.current_song = song_path,
                                       !.is_playing = TRUE,
                                       !.last_play_time = current_time],
                       !.m = [m2 EXCEPT !.busy = TRUE],
                       !.calls = @ \o <<"load", "set_volume", "play">>,
                       !.ret = "True"]

\* play_song testing for the song already playing before the interval
play_song_SameFirst(p, m, fs, current_time, song_path, raises) ==
    LET same == [p |-> p, m |-> m, calls |-> <<>>, raised |-> {}, ret |-> "False"] IN
    IF p.current_song = song_path /\ p.is_playing
    THEN [same EXCEPT !.ret = "True"]
    ELSE IF current_time - p.last_play_time < min_play_interval
    THEN same
    ELSE IF fs[song_path] # "ok"
    THEN same
    ELSE IF p.is_playing
    THEN start_track(stop_song(p, m, raises), current_time, song_path, raises)
    ELSE start_track(same, current_time, song_path, raises)

\* play_song without the minimum interval
play_song_NoGate(p, m, fs, current_time, song_path, raises) ==
    LET same == [p |-> p, m |-> m, calls |-> <<>>, raised |-> {}, ret |-> "False"] IN
    IF p.current_song = song_path /\ p.is_playing
    THEN [same EXCEPT !.ret = "True"]
    ELSE IF fs[song_path] # "ok"
    THEN same
    ELSE IF p.is_playing
    THEN start_track(stop_song(p, m, raises), current_time, song_path, raises)
    ELSE start_track(same, current_time, song_path, raises)

play_song(p, m, fs, current_time, song_path, raises) ==
    LET same == [p |-> p, m |-> m, calls |-> <<>>, raised |-> {}, ret |-> "False"] IN
    IF current_time - p.last_play_time < min_play_interval
    THEN same
    ELSE IF p.current_song = song_path /\ p.is_playing
    THEN [same EXCEPT !.ret = "True"]
    ELSE IF fs[song_path] = "missing"
    THEN same
    ELSE IF fs[song_path] = "empty"
    THEN same
    ELSE IF p.is_playing
    THEN start_track(stop_song(p, m, raises), current_time, song_path, raises)
    ELSE start_track(same, current_time, song_path, raises)

\* set_volume clamping from above only
set_volume_NoFloor(p, m, v, raises) ==
    LET p1 == [p EXCEPT !.volume = Min2(10, v)] IN
    IF "set_volume" \in raises
    THEN [p |-> p1, m |-> m, calls |-> <<"set_volume">>, raised |-> {"set_volume"},
          ret |-> "False"]
    ELSE [p |-> p1, m |-> [m EXCEPT !.volume = p1.volume],
          calls |-> <<"set_volume">>, raised |-> {}, ret |-> "True"]

set_volume(p, m, v, raises) ==
    LET p1 == [p EXCEPT !.volume = Max2(0, Min2(10, v))] IN
    IF "set_volume" \in raises
    THEN [p |-> p1, m |-> m, calls |-> <<"set_volume">>, raised |-> {"set_volume"},
          ret |-> "False"]
    ELSE [p |-> p1, m |-> [m EXCEPT !.volume = p1.volume],
          calls |-> <<"set_volume">>, raised |-> {}, ret |-> "True"]

\* The failures of the backend during one call: stop may raise, and the first
\* of load, set_volume, play to raise ends the call.
Raises == {r \in SUBSET BackendCalls : Cardinality(r \ {"stop"}) <= 1}

\* The call `op(arg)` made at the current state with outcome r.  `last` records
\* it; seq alternates so that every call changes `last`, and again says that
\* the call repeats a play_song of the same path that returned True.
Completes(op, arg, r) ==
    /\ current_song' = r.p.current_song
    /\ is_playing' = r.p.is_playing
    /\ volume' = r.p.volume
    /\ last_play_time' = r.p.last_play_time
    /\ mixer' = r.m
    /\ last' = [seq |-> 1 - last.seq, op |-> op, arg |-> arg, ret |-> r.ret,
                calls |-> r.calls, raised |-> r.raised,
                again |-> op = "play_song" /\ last.op = "play_song"
                          /\ last.arg = arg /\ last.ret = "True"]

NoCall == [seq |-> 0, op |-> "init", arg |-> None, ret |-> "None", calls |-> <<>>,
           raised |-> {}, again |-> FALSE, removed |-> {}, dropped |-> {},
           back |-> {}]

\* The application's variables where only the player is exercised.
AppIdle ==
    /\ is_running = TRUE
    /\ cap = "open"
    /\ window = "open"
    /\ pc = [t \in {"loop", "main"} |-> "idle"]
    /\ loc = <<>>
    /\ hist = <<>>

\* MusicPlayer.__init__, lines 18-30.  time.time() counts seconds since 1970, so
\* the first call finds the interval since last_play_time = 0 elapsed.
InitPlayer ==
    /\ volume = 5
    /\ mixer = [loaded |-> None, busy |-> FALSE, volume |-> 5]
    /\ current_song = None
    /\ is_playing = FALSE
    /\ last_play_time = 0
    /\ now = min_play_interval
    /\ last = NoCall

Init ==
    /\ InitPlayer
    /\ merged_df = <<>>
    /\ files \in {f \in [Paths -> FileStates] : f[1] = "ok"}
    /\ AppIdle

PlaySong ==
    \E song_path \in Paths, raises \in Raises :
        /\ Completes("play_song", song_path,
                     play_song(Player, mixer, files, now, song_path, raises))
        /\ UNCHANGED <<merged_df, now, files, appVars>>

StopSong ==
    \E raises \in SUBSET {"stop"} :
        /\ Completes("stop_song", None, stop_song(Player, mixer, raises))
        /\ UNCHANGED <<merged_df, now, files, appVars>>

SetVolume ==
    \E v \in VolumeInputs, raises \in SUBSET {"set_volume"} :
        /\ Completes("set_volume", v, set_volume(Player, mixer, v, raises))
        /\ UNCHANGED <<merged_df, now, files, appVars>>

\* Time passes between calls.
Tick ==
    \E d \in {1, min_play_interval} :
        /\ now + d <= MaxTime
        /\ now' = now + d
        /\ UNCHANGED <<playerVars, merged_df, mixer, files, last, appVars>>

\* The track that is playing comes to its end: the mixer falls silent, the
\* controller's fields are not told.
TrackEnds ==
    /\ mixer.busy
    /\ mixer' = [mixer EXCEPT !.busy = FALSE]
    /\ UNCHANGED <<playerVars, merged_df, now, files, last, appVars>>

Next == PlaySong \/ StopSong \/ SetVolume \/ Tick \/ TrackEnds

Spec == Init /\ [][Next]_vars

(***************************************************************************)
(* The song matcher.  A row of merged_df is [index, song_id,               *)
(* valence_average, arousal_average, distance]: index is the row's label   *)
(* in the data frame, audio_path is the song_id's path (line 103), and     *)
(* distance is the column the search writes, NoDistance before the first   *)
(* search.  The distance kept here is the square of the Euclidean          *)
(* distance: np.sqrt is increasing, so idxmin picks the same row.          *)
(***************************************************************************)
SongIds == 1..MaxRows
RowPoints == {<<8, 8>>, <<-8, -4>>, <<0, 0>>}
Queries == {<<8, 8>>, <<-8, -4>>, <<0, 0>>, <<4, 8>>}
NoDistance == -1

AudioPath(song_id) == song_id
Exists(fs, path) == fs[path] # "missing"
\* os.path.exists (line 167) is all the search reads of a file, so the files of
\* the song table are either absent or present.
ExistStates == {"missing", "ok"}


\* lines 158-161
WithDistance(df, valence, arousal) ==
    [i \in DOMAIN df |->
        [df[i] EXCEPT !.distance = (df[i].valence_average - valence)
                                     * (df[i].valence_average - valence)
                                   + (df[i].arousal_average - arousal)
                                     * (df[i].arousal_average - arousal)]]

\* Series.idxmin: the position of the first row holding the minimum
IdxMin(df) ==
    CHOOSE k \in DOMAIN df :
        /\ \A j \in DOMAIN df : df[k].distance <= df[j].distance
        /\ \A j \in 1..(k - 1) : df[j].distance > df[k].distance

\* Series.idxmin taking the last row holding the minimum
IdxMinLast(df) ==
    CHOOSE k \in DOMAIN df :
        /\ \A j \in DOMAIN df : df[k].distance <= df[j].distance
        /\ \A j \in (k + 1)..Len(df) : df[j].distance > df[k].distance

\* find_matching_song with idxmin breaking ties toward the last row
RECURSIVE find_matching_song_LastMin(_, _, _, _)
find_matching_song_LastMin(df, fs, valence, arousal) ==
    LET d == WithDistance(df, valence, arousal) IN
    IF Len(d) = 0
    THEN [ret |-> <<>>, df |-> d, removed |-> {}]
    ELSE LET closest_song == d[IdxMinLast(d)] IN
         IF Exists(fs, AudioPath(closest_song.song_id))
         THEN [ret |-> <<closest_song>>, df |-> d, removed |-> {}]
         ELSE LET Keep(r) == r.index # closest_song.index
                  rest == find_matching_song_LastMin(SelectSeq(d, Keep), fs,
                                                     valence, arousal)
              IN [rest EXCEPT !.removed = @ \cup {closest_song.index}]

\* find_matching_song dropping every row without its file before it searches
find_matching_song_DropsAllMissing(df, fs, valence, arousal) ==
    LET HasFile(r) == Exists(fs, AudioPath(r.song_id))
        d == WithDistance(SelectSeq(df, HasFile), valence, arousal)
        gone == {df[i].index : i \in {i \in DOMAIN df : ~HasFile(df[i])}}
    IN IF Len(d) = 0
       THEN [ret |-> <<>>, df |-> d, removed |-> gone]
       ELSE [ret |-> <<d[IdxMin(d)]>>, df |-> d, removed |-> gone]

\* ret is <<>> for None and <<row>> for a row; df is the table the call leaves
\* in self.merged_df, removed the labels of the rows it dropped.  On the empty
\* table idxmin raises and the except branch returns None (lines 175-177).
RECURSIVE find_matching_song(_, _, _, _)
find_matching_song(df, fs, valence, arousal) ==
    LET d == WithDistance(df, valence, arousal) IN
    IF Len(d) = 0
    THEN [ret |-> <<>>, df |-> d, removed |-> {}]
    ELSE LET closest_song == d[IdxMin(d)] IN
         IF Exists(fs, AudioPath(closest_song.song_id))
         THEN [ret |-> <<closest_song>>, df |-> d, removed |-> {}]
         ELSE LET Keep(r) == r.index # closest_song.index
                  rest == find_matching_song(SelectSeq(d, Keep), fs,
                                             valence, arousal)
              IN [rest EXCEPT !.removed = @ \cup {closest_song.index}]

\* load_dataset (lines 82-152) leaves one row per song id, labelled 0, 1, ...
\* in song id order, no distance column yet.
Tables ==
    UNION {[1..n -> RowPoints] : n \in 0..MaxRows}
TableOf(pts) ==
    [i \in DOMAIN pts |->
        [index |-> i - 1, song_id |-> i, valence_average |-> pts[i][1],
         arousal_average |-> pts[i][2], distance |-> NoDistance]]

InitMatcher ==
    /\ InitPlayer
    /\ \E pts \in Tables : merged_df = TableOf(pts)
    /\ files \in [SongIds -> ExistStates]
    /\ AppIdle

\* `last` also keeps dropped, the labels of the rows dropped by the calls before
\* this one, and back, those of them whose audio file was on disk at this call.
FindMatchingSong ==
    \E q \in Queries :
        LET r == find_matching_song(merged_df, files, q[1], q[2]) IN
        /\ merged_df' = r.df
        /\ last' = [seq |-> 1 - last.seq, op |-> "find_matching_song", arg |-> q,
                    ret |-> r.ret, removed |-> r.removed,
                    dropped |-> last.dropped \cup last.removed,
                    back |-> {i \in last.dropped \cup last.removed :
                                Exists(files, AudioPath(i + 1))}]
        /\ UNCHANGED <<playerVars, mixer, now, files, appVars>>

\* An audio file appears on disk or disappears from it.
FileChange ==
    \E path \in DOMAIN files, st \in ExistStates :
        /\ files[path] # st
        /\ files' = [files EXCEPT ![path] = st]
        /\ UNCHANGED <<playerVars, merged_df, mixer, now, last, appVars>>

NextMatcher == FindMatchingSong \/ FileChange

SpecMatcher == InitMatcher /\ [][NextMatcher]_vars

(***************************************************************************)
(* The emotion classifier adapter.  What the external detector does with   *)
(* a frame is a detection: it raises, or it gives a list of faces, each    *)
(* with its 'emotions' dict, here the sequence of the dict's <<label,      *)
(* score>> items in iteration order.  detect_emotion returns <<label,      *)
(* valence, arousal>> with label <<>> for None and <<l>> for the label l.  *)
(***************************************************************************)
MaxEmotions == 2          \* items of an emotions dict
MaxScore == 2             \* scores 0..MaxScore
KnownLabels == {"happy", "sad", "angry", "neutral", "fear", "surprise", "disgust"}
Labels == KnownLabels \cup {"contempt"}

\* dict.get(emotion, (0.0, 0.0)) with a default of (0.8, 0.8)
emotion_to_valence_arousal_HappyDefault(emotion) ==
    CASE emotion = "sad" -> <<-8, -4>>
      [] emotion = "angry" -> <<-7, 8>>
      [] emotion = "neutral" -> <<0, 0>>
      [] emotion = "fear" -> <<-8, 5>>
      [] emotion = "surprise" -> <<4, 8>>
      [] emotion = "disgust" -> <<-8, 1>>
      [] OTHER -> <<8, 8>>

emotion_to_valence_arousal(emotion) ==
    CASE emotion = "happy" -> <<8, 8>>
      [] emotion = "sad" -> <<-8, -4>>
      [] emotion = "angry" -> <<-7, 8>>
      [] emotion = "neutral" -> <<0, 0>>
      [] emotion = "fear" -> <<-8, 5>>
      [] emotion = "surprise" -> <<4, 8>>
      [] emotion = "disgust" -> <<-8, 1>>
      [] OTHER -> <<0, 0>>

\* max(emotions_dict.items(), key=lambda x: x[1])[0]: the first item, in
\* iteration order, holding the greatest score
Dominant(emotions_dict) ==
    LET k == CHOOSE k \in DOMAIN emotions_dict :
                 /\ \A j \in DOMAIN emotions_dict :
                        emotions_dict[k][2] >= emotions_dict[j][2]
                 /\ \A j \in 1..(k - 1) :
                        emotions_dict[j][2] < emotions_dict[k][2]
    IN emotions_dict[k][1]

\* max() of an empty dict raises ValueError, caught at line 36
detect_emotion(detection) ==
    IF detection.raises
    THEN <<<<>>, 0, 0>>
    ELSE IF Len(detection.faces) = 0
    THEN <<<<>>, 0, 0>>
    ELSE LET emotions_dict == detection.faces[1] IN
         IF Len(emotions_dict) = 0
         THEN <<<<>>, 0, 0>>
         ELSE LET dominant_emotion == Dominant(emotions_dict)
                  va == emotion_to_valence_arousal(dominant_emotion)
              IN <<(<<dominant_emotion>>), va[1], va[2]>>

\* The emotions dicts: up to MaxEmotions items with distinct labels.
EmotionDicts ==
    {d \in UNION {[1..n -> Labels \X (0..MaxScore)] : n \in 0..MaxEmotions} :
        \A i, j \in DOMAIN d : i # j => d[i][1] # d[j][1]}
Detections ==
    {[raises |-> TRUE, faces |-> <<>>], [raises |-> FALSE, faces |-> <<>>]}
    \cup {[raises |-> FALSE, faces |-> <<d>>] : d \in EmotionDicts}

InitEmotion ==
    /\ InitPlayer
    /\ merged_df = <<>>
    /\ files = [path \in Paths |-> "ok"]
    /\ is_running = TRUE /\ cap = "open" /\ window = "open"
    /\ pc = [t \in {"loop", "main"} |-> "idle"]
    /\ hist = <<>>
    /\ \E detection \in Detections : loc = [detection |-> detection]

DetectEmotion ==
    /\ last.op = "init"
    /\ last' = [seq |-> 1 - last.seq, op |-> "detect_emotion",
                arg |-> loc.detection, ret |-> detect_emotion(loc.detection)]
    /\ UNCHANGED <<playerVars, merged_df, mixer, now, files, appVars>>

NextEmotion == DetectEmotion

SpecEmotion == InitEmotion /\ [][NextEmotion]_vars

(***************************************************************************)
(* The application: the video thread running update_frame ("loop") and the *)
(* main thread in root.mainloop() running the button callbacks ("main").   *)
(* pc[t] is the statement thread t executes next.  The calls of            *)
(* find_matching_song, play_song and stop_song are taken statement by      *)
(* statement, as the two threads interleave there.  A Tk call of the video *)
(* thread is carried out by the main thread's event loop: it waits while   *)
(* the main thread runs a callback, and raises once the window is gone,    *)
(* which ends the thread.                                                  *)
(***************************************************************************)
Threads == {"loop", "main"}

\* What the camera shows: no face, or one face with one emotion.
Face(label) == [raises |-> FALSE, faces |-> <<(<<(<<label, 1>>)>>)>>]
AppFrames == {[raises |-> FALSE, faces |-> <<>>],
              Face("happy"), Face("sad"), Face("neutral")}
AppTable == TableOf(<<(<<8, 8>>), (<<-8, -4>>), (<<0, 0>>)>>)
AppFiles == (1 :> "ok") @@ (2 :> "ok") @@ (3 :> "missing")

NoLocals == [ra |-> [t \in Threads |-> "none"], frame |-> [raises |-> FALSE, faces |-> <<>>],
             valence |-> 0, arousal |-> 0, song_path |-> None, current_time |-> 0]

\* The positions inside each method: its first statement done, not yet returned.
InStopSong == {"ss_stop", "ss_song", "ss_flag"}
InFind == {"find_min"}
InPlaySong == {"ps_same", "ps_exists", "ps_playing", "ps_sleep", "ps_load",
               "ps_setvol", "ps_play", "ps_song", "ps_flag", "ps_time"}

\* main.py lines 15-28 and 151-153
InitApp ==
    /\ InitPlayer
    /\ merged_df = AppTable
    /\ files = AppFiles
    /\ is_running = TRUE
    /\ cap = "open"
    /\ window = "open"
    /\ pc = [t \in Threads |-> IF t = "loop" THEN "while" ELSE "mainloop"]
    /\ loc = NoLocals
    /\ hist = [read_after_release |-> FALSE]

Goto(t, where) == pc' = [pc EXCEPT ![t] = where]
\* a Tk call of the video thread: done by the event loop, or raising
TkCall(next) ==
    /\ pc["main"] = "mainloop" \/ window = "destroyed"
    /\ Goto("loop", IF window = "destroyed" THEN "dead" ELSE next)

\* line 104
LoopWhile ==
    /\ pc["loop"] = "while"
    /\ Goto("loop", IF is_running THEN "read" ELSE "done")
    /\ loc' = [NoLocals EXCEPT !.ra = loc.ra]
    /\ UNCHANGED <<playerVars, merged_df, mixer, now, files, last, is_running, cap,
                   window, hist>>

\* lines 105-106: a released capture device gives ret = False
LoopRead ==
    /\ pc["loop"] = "read"
    /\ \E ret \in (IF cap = "open" THEN BOOLEAN ELSE {FALSE}), frame \in AppFrames :
          IF ret
          THEN /\ loc' = [loc EXCEPT !.frame = frame]
               /\ Goto("loop", "detect")
          ELSE /\ loc' = loc
               /\ Goto("loop", "update")
    /\ hist' = [hist EXCEPT !.read_after_release = @ \/ cap = "released"]
    /\ UNCHANGED <<playerVars, merged_df, mixer, now, files, last, is_running, cap,
                   window>>

\* lines 108-110
LoopDetect ==
    /\ pc["loop"] = "detect"
    /\ LET r == detect_emotion(loc.frame) IN
          IF r[1] # <<>>
          THEN /\ loc' = [loc EXCEPT !.valence = r[2], !.arousal = r[3]]
               /\ Goto("loop", "labels")
          ELSE /\ loc' = loc
               /\ Goto("loop", "display")
    /\ UNCHANGED <<playerVars, merged_df, mixer, now, files, last, is_running, cap,
                   window, hist>>

\* lines 112-117
LoopLabels ==
    /\ pc["loop"] = "labels"
    /\ TkCall("find_dist")
    /\ UNCHANGED <<playerVars, merged_df, mixer, now, files, last, is_running, cap,
                   window, loc, hist>>

\* find_matching_song, lines 158-161
LoopFindDist ==
    /\ pc["loop"] = "find_dist"
    /\ merged_df' = WithDistance(merged_df, loc.valence, loc.arousal)
    /\ Goto("loop", "find_min")
    /\ UNCHANGED <<playerVars, mixer, now, files, last, is_running, cap, window, loc,
                   hist>>

\* find_matching_song, lines 164-177, and main.py line 123
LoopFindMin ==
    /\ pc["loop"] = "find_min"
    /\ IF Len(merged_df) = 0
       THEN /\ Goto("loop", "display")
            /\ UNCHANGED <<merged_df, loc>>
       ELSE LET closest_song == merged_df[IdxMin(merged_df)]
                Keep(r) == r.index # closest_song.index
            IN IF Exists(files, AudioPath(closest_song.song_id))
               THEN /\ loc' = [loc EXCEPT !.song_path = AudioPath(closest_song.song_id)]
                    /\ Goto("loop", "ps_gate")
                    /\ UNCHANGED merged_df
               ELSE /\ merged_df' = SelectSeq(merged_df, Keep)
                    /\ Goto("loop", "find_dist")
                    /\ UNCHANGED loc
    /\ UNCHANGED <<playerVars, mixer, now, files, last, is_running, cap, window, hist>>

\* play_song, lines 183-186
LoopPsGate ==
    /\ pc["loop"] = "ps_gate"
    /\ loc' = [loc EXCEPT !.current_time = now]
    /\ Goto("loop", IF now - last_play_time < min_play_interval
                    THEN "display" ELSE "ps_same")
    /\ UNCHANGED <<playerVars, merged_df, mixer, now, files, last, is_running, cap,
                   window, hist>>

\* play_song, lines 189-191
LoopPsSame ==
    /\ pc["loop"] = "ps_same"
    /\ Goto("loop", IF current_song = loc.song_path /\ is_playing
                    THEN "song_label" ELSE "ps_exists")
    /\ UNCHANGED <<playerVars, merged_df, mixer, now, files, last, is_running, cap,
                   window, loc, hist>>

\* play_song, lines 193-200
LoopPsExists ==
    /\ pc["loop"] = "ps_exists"
    /\ Goto("loop", IF files[loc.song_path] = "ok" THEN "ps_playing" ELSE "display")
    /\ UNCHANGED <<playerVars, merged_df, mixer, now, files, last, is_running, cap,
                   window, loc, hist>>

\* play_song, lines 203-204
LoopPsPlaying ==
    /\ pc["loop"] = "ps_playing"
    /\ IF is_playing
       THEN /\ Goto("loop", "ss_check")
            /\ loc' = [loc EXCEPT !.ra["loop"] = "ps_sleep"]
       ELSE /\ Goto("loop", "ps_load")
            /\ loc' = loc
    /\ UNCHANGED <<playerVars, merged_df, mixer, now, files, last, is_running, cap,
                   window, hist>>

\* stop_song, line 229
SsCheck(t) ==
    /\ pc[t] = "ss_check"
    /\ Goto(t, IF is_playing THEN "ss_stop" ELSE loc.ra[t])
    /\ UNCHANGED <<playerVars, merged_df, mixer, now, files, last, is_running, cap,
                   window, loc, hist>>

\* stop_song, line 230: mixer.music.stop() stops the mixer or raises
SsStop(t) ==
    /\ pc[t] = "ss_stop"
    /\ \E raises \in BOOLEAN :
          IF raises
          THEN Goto(t, loc.ra[t]) /\ mixer' = mixer
          ELSE Goto(t, "ss_song") /\ mixer' = [mixer EXCEPT !.busy = FALSE]
    /\ UNCHANGED <<playerVars, merged_df, now, files, last, is_running, cap, window,
                   loc, hist>>

\* stop_song, line 231
SsSong(t) ==
    /\ pc[t] = "ss_song"
    /\ current_song' = None
    /\ Goto(t, "ss_flag")
    /\ UNCHANGED <<is_playing, volume, last_play_time, merged_df, mixer, now, files,
                   last, is_running, cap, window, loc, hist>>

\* stop_song, lines 232-233
SsFlag(t) ==
    /\ pc[t] = "ss_flag"
    /\ is_playing' = FALSE
    /\ Goto(t, loc.ra[t])
    /\ UNCHANGED <<current_song, volume, last_play_time, merged_df, mixer, now, files,
                   last, is_running, cap, window, loc, hist>>

\* play_song, line 205
LoopPsSleep ==
    /\ pc["loop"] = "ps_sleep"
    /\ Goto("loop", "ps_load")
    /\ UNCHANGED <<playerVars, merged_df, mixer, now, files, last, is_running, cap,
                   window, loc, hist>>

\* play_song, line 208, and the except branch of lines 218-220
LoopPsLoad ==
    /\ pc["loop"] = "ps_load"
    /\ \E raises \in BOOLEAN :
          IF raises
          THEN Goto("loop", "display") /\ mixer' = mixer
          ELSE /\ Goto("loop", "ps_setvol")
               /\ mixer' = [mixer EXCEPT !.loaded = loc.song_path, !.busy = FALSE]
    /\ UNCHANGED <<playerVars, merged_df, now, files, last, is_running, cap, window,
                   loc, hist>>

\* play_song, line 209
LoopPsSetVol ==
    /\ pc["loop"] = "ps_setvol"
    /\ \E raises \in BOOLEAN :
          IF raises
          THEN Goto("loop", "display") /\ mixer' = mixer
          ELSE Goto("loop", "ps_play") /\ mixer' = [mixer EXCEPT !.volume = volume]
    /\ UNCHANGED <<playerVars, merged_df, now, files, last, is_running, cap, window,
                   loc, hist>>

\* play_song, line 210
LoopPsPlay ==
    /\ pc["loop"] = "ps_play"
    /\ \E raises \in BOOLEAN :
          IF raises
          THEN Goto("loop", "display") /\ mixer' = mixer
          ELSE Goto("loop", "ps_song") /\ mixer' = [mixer EXCEPT !.busy = TRUE]
    /\ UNCHANGED <<playerVars, merged_df, now, files, last, is_running, cap, window,
                   loc, hist>>

\* play_song, line 211
LoopPsSong ==
    /\ pc["loop"] = "ps_song"
    /\ current_song' = loc.song_path
    /\ Goto("loop", "ps_flag")
    /\ UNCHANGED <<is_playing, volume, last_play_time, merged_df, mixer, now, files,
                   last, is_running, cap, window, loc, hist>>

\* play_song, line 212
LoopPsFlag ==
    /\ pc["loop"] = "ps_flag"
    /\ is_playing' = TRUE
    /\ Goto("loop", "ps_time")
    /\ UNCHANGED <<current_song, volume, last_play_time, merged_df, mixer, now, files,
                   last, is_running, cap, window, loc, hist>>

\* play_song, lines 213-216
LoopPsTime ==
    /\ pc["loop"] = "ps_time"
    /\ last_play_time' = loc.current_time
    /\ Goto("loop", "song_label")
    /\ UNCHANGED <<current_song, is_playing, volume, merged_df, mixer, now, files,
                   last, is_running, cap, window, loc, hist>>

\* lines 124-126
LoopSongLabel ==
    /\ pc["loop"] = "song_label"
    /\ TkCall("display")
    /\ UNCHANGED <<playerVars, merged_df, mixer, now, files, last, is_running, cap,
                   window, loc, hist>>

\* lines 129-134
LoopDisplay ==
    /\ pc["loop"] = "display"
    /\ TkCall("update")
    /\ UNCHANGED <<playerVars, merged_df, mixer, now, files, last, is_running, cap,
                   window, loc, hist>>

\* line 136
LoopUpdate ==
    /\ pc["loop"] = "update"
    /\ TkCall("while")
    /\ UNCHANGED <<playerVars, merged_df, mixer, now, files, last, is_running, cap,
                   window, loc, hist>>

\* the Stop Music button: stop_music, line 140
ClickStopMusic ==
    /\ pc["main"] = "mainloop"
    /\ Goto("main", "ss_check")
    /\ loc' = [loc EXCEPT !.ra["main"] = "sm_label"]
    /\ UNCHANGED <<playerVars, merged_df, mixer, now, files, last, is_running, cap,
                   window, hist>>

\* stop_music, line 141
StopMusicLabel ==
    /\ pc["main"] = "sm_label"
    /\ Goto("main", "mainloop")
    /\ UNCHANGED <<playerVars, merged_df, mixer, now, files, last, is_running, cap,
                   window, loc, hist>>

\* the Exit button: cleanup, lines 145-146
ClickExit ==
    /\ pc["main"] = "mainloop"
    /\ is_running' = FALSE
    /\ Goto("main", "ss_check")
    /\ loc' = [loc EXCEPT !.ra["main"] = "cl_release"]
    /\ UNCHANGED <<playerVars, merged_df, mixer, now, files, last, cap, window, hist>>

\* cleanup, lines 147-148
CleanupRelease ==
    /\ pc["main"] = "cl_release"
    /\ cap' = "released"
    /\ Goto("main", "cl_destroy")
    /\ UNCHANGED <<playerVars, merged_df, mixer, now, files, last, is_running, window,
                   loc, hist>>

\* cleanup, line 149
CleanupDestroy ==
    /\ pc["main"] = "cl_destroy"
    /\ window' = "destroyed"
    /\ Goto("main", "exiting")
    /\ UNCHANGED <<playerVars, merged_df, mixer, now, files, last, is_running, cap,
                   loc, hist>>

\* mainloop returns, run returns, the interpreter exits and with it the daemon
\* thread (line 99)
ProcessExit ==
    /\ pc["main"] = "exiting"
    /\ pc' = [t \in Threads |-> IF t = "main" THEN "exited"
                                ELSE IF pc[t] \in {"done", "dead"} THEN pc[t]
                                ELSE "killed"]
    /\ UNCHANGED <<playerVars, merged_df, mixer, now, files, last, is_running, cap,
                   window, loc, hist>>

AppTick ==
    /\ pc["main"] # "exited"
    /\ Tick

NextApp ==
    \/ LoopWhile \/ LoopRead \/ LoopDetect \/ LoopLabels
    \/ LoopFindDist \/ LoopFindMin
    \/ LoopPsGate \/ LoopPsSame \/ LoopPsExists \/ LoopPsPlaying \/ LoopPsSleep
    \/ LoopPsLoad \/ LoopPsSetVol \/ LoopPsPlay \/ LoopPsSong \/ LoopPsFlag
    \/ LoopPsTime
    \/ LoopSongLabel \/ LoopDisplay \/ LoopUpdate
    \/ SsCheck("loop") \/ SsStop("loop") \/ SsSong("loop") \/ SsFlag("loop")
    \/ SsCheck("main") \/ SsStop("main") \/ SsSong("main") \/ SsFlag("main")
    \/ ClickStopMusic \/ StopMusicLabel
    \/ ClickExit \/ CleanupRelease \/ CleanupDestroy \/ ProcessExit
    \/ AppTick

SpecApp == InitApp /\ [][NextApp]_vars

(***************************************************************************)
(* Properties of the playback controller, under Spec.                      *)
(***************************************************************************)
\* This step is a call of `op`.
CallOf(op) == last'.seq # last.seq /\ last'.op = op
\* The interval since the last successful play start has not elapsed.
TooSoon == now - last_play_time < min_play_interval
SamePlayback == Player' = Player /\ mixer' = mixer

\* C1: in every state reached by play_song, stop_song and set_volume calls,
\* failing backend steps included, current_song is set exactly when is_playing
\* is true; the one field current_song holds the one song recorded as playing.
C1_SongIffPlaying == (current_song # None) <=> is_playing

\* a play_song whose backend stop and load both raised, the old track still on
C1_Witness ==
    /\ last.op = "play_song" /\ last.ret = "False"
    /\ last.raised = {"stop", "load"}
    /\ is_playing /\ current_song \in Paths /\ current_song # last.arg

\* C3 as stated: a play_song repeating the path of the play_song before it,
\* which returned True, made before the minimum interval has elapsed, returns
\* True and issues no backend call.
C3_Original ==
    [][(CallOf("play_song") /\ last'.again /\ files[last'.arg] = "ok" /\ TooSoon)
        => (last'.ret = "True" /\ last'.calls = <<>> /\ SamePlayback)]_vars

\* C3 amended: a play_song repeating the path of the play_song before it, which
\* returned True, issues no backend call and changes no playback state; it
\* returns True when the minimum interval since the last play start has
\* elapsed and False when it has not.
C3_RepeatDoesNotRestart ==
    [][(CallOf("play_song") /\ last'.again /\ files[last'.arg] = "ok")
        => /\ last'.calls = <<>>
           /\ SamePlayback
           /\ last'.ret = (IF TooSoon THEN "False" ELSE "True")]_vars

\* the repeated call came before the interval had elapsed and was refused
C3_Witness ==
    /\ last.op = "play_song" /\ last.again /\ last.ret = "False"
    /\ files[last.arg] = "ok" /\ current_song = last.arg /\ is_playing
    /\ now - last_play_time < min_play_interval

\* C4: a play_song made before the minimum interval since the last successful
\* play start has elapsed returns False and changes nothing; a track is started
\* only when the interval has elapsed, so two starts are at least the interval
\* apart; stop_song and a failed play_song leave last_play_time alone.
C4_MinInterval ==
    [][/\ (CallOf("play_song") /\ TooSoon)
            => (last'.ret = "False" /\ last'.calls = <<>> /\ SamePlayback)
       /\ (CallOf("play_song") /\ "play" \in Range(last'.calls) /\ last'.ret = "True")
            => (~TooSoon /\ last_play_time' = now
                /\ last_play_time' - last_play_time >= min_play_interval)
       /\ (CallOf("stop_song") \/ (CallOf("play_song") /\ last'.ret = "False"))
            => last_play_time' = last_play_time]_vars

\* a playable path other than the one playing, refused for the interval alone
C4_Witness ==
    /\ last.op = "play_song" /\ last.ret = "False" /\ last.calls = <<>>
    /\ files[last.arg] = "ok" /\ is_playing /\ current_song # last.arg
    /\ now - last_play_time < min_play_interval /\ last_play_time > 0

\* C5 as stated: whenever play_song returns False the playback state
\* (current_song, is_playing, volume, last_play_time) is as before the call.
C5_FalseLeavesState ==
    [][(CallOf("play_song") /\ last'.ret = "False") => Player' = Player]_vars

\* C6 as stated: set_volume stores the input clamped to [0,1], returns True,
\* leaves current_song and is_playing alone, and the volume is always in [0,1].
C6_Original ==
    /\ [](volume \in 0..10)
    /\ [][CallOf("set_volume")
            => /\ volume' = Max2(0, Min2(10, last'.arg))
               /\ last'.ret = "True"
               /\ current_song' = current_song /\ is_playing' = is_playing]_vars

\* C6 amended: set_volume stores the input clamped to [0,1] and leaves
\* current_song, is_playing and last_play_time alone; it returns True and the
\* mixer has the new volume, unless the mixer's set_volume raises, and then it
\* returns False with the clamped volume stored; the volume is always in [0,1].
C6_SetVolumeClamps ==
    /\ [](volume \in 0..10)
    /\ [][CallOf("set_volume")
            => /\ volume' = Max2(0, Min2(10, last'.arg))
               /\ (last'.arg = -10 => volume' = 0) /\ (last'.arg = 20 => volume' = 10)
               /\ current_song' = current_song /\ is_playing' = is_playing
               /\ last_play_time' = last_play_time
               /\ IF last'.raised = {}
                  THEN last'.ret = "True" /\ mixer'.volume = volume'
                  ELSE last'.ret = "False" /\ mixer' = mixer]_vars

\* set_volume(-1) while a track plays
C6_Witness ==
    /\ last.op = "set_volume" /\ last.arg = -10 /\ volume = 0 /\ last.ret = "True"
    /\ is_playing

\* C7 as stated: stop_song changes nothing and issues no backend stop when
\* nothing is playing, and it leaves is_playing false and current_song None
\* with volume and last_play_time untouched.
C7_Original ==
    [][CallOf("stop_song")
        => /\ ~is_playing => (SamePlayback /\ last'.calls = <<>>)
           /\ ~is_playing' /\ current_song' = None
           /\ volume' = volume /\ last_play_time' = last_play_time]_vars

\* C7 amended: stop_song changes nothing and issues no backend stop when nothing
\* is playing; when the backend stop does not raise it leaves is_playing false
\* and current_song None, so that a second stop_song changes nothing; when the
\* backend stop raises the playback state is as before; volume and
\* last_play_time are untouched.
C7_StopIdempotent ==
    [][CallOf("stop_song")
        => /\ ~is_playing => (SamePlayback /\ last'.calls = <<>>)
           /\ last'.raised = {} => (~is_playing' /\ current_song' = None)
           /\ last'.raised # {} => SamePlayback
           /\ (last.op = "stop_song" /\ last.raised = {})
                => (SamePlayback /\ last'.calls = <<>>)
           /\ volume' = volume /\ last_play_time' = last_play_time]_vars

\* a stop_song with nothing playing, after a track had been started
C7_Witness ==
    /\ last.op = "stop_song" /\ last.calls = <<>> /\ ~is_playing
    /\ current_song = None /\ last_play_time > 0

(***************************************************************************)
(* Properties of the song matcher, under SpecMatcher.                      *)
(***************************************************************************)
SqDist(row, q) ==
    (row.valence_average - q[1]) * (row.valence_average - q[1])
    + (row.arousal_average - q[2]) * (row.arousal_average - q[2])
\* The positions of the rows of table T whose audio file exists.
Playable(T, fs) == {i \in DOMAIN T : fs[AudioPath(T[i].song_id)] # "missing"}
\* The first position, in table order, among the playable rows nearest to q.
Nearest(T, fs, q) ==
    CHOOSE k \in Playable(T, fs) :
        \A j \in Playable(T, fs) :
            \/ SqDist(T[k], q) < SqDist(T[j], q)
            \/ SqDist(T[k], q) = SqDist(T[j], q) /\ k <= j

RowLabels(T) == {T[i].index : i \in DOMAIN T}
\* Table T with the distance column of every row computed for query q.
Rescored(T, q) == [i \in DOMAIN T |-> [T[i] EXCEPT !.distance = SqDist(T[i], q)]]
\* Row T[i] comes before row T[j] in the order idxmin searches for query q.
Before(T, q, i, j) ==
    \/ SqDist(T[i], q) < SqDist(T[j], q)
    \/ SqDist(T[i], q) = SqDist(T[j], q) /\ i < j

\* C11: across any sequence of find_matching_song calls the song table only
\* shrinks.  A call leaves the table as it found it less the rows it removed,
\* the song id and the two coordinates of every other row as they were, in the
\* same order, and the per-query distance column recomputed for its query.  A
\* row it removed had no audio file at the call and came, in idxmin's order,
\* before every row it left, so a row whose file exists is never removed.  The
\* row it returns is a row it left, never one removed by an earlier call, even
\* when that row's file is back on disk.  No other step changes the table.
C11_TableOnlyShrinks ==
    [][IF CallOf("find_matching_song")
       THEN LET q == last'.arg
                Kept(r) == r.index \notin last'.removed
            IN /\ merged_df' = Rescored(SelectSeq(merged_df, Kept), q)
               /\ last'.removed \subseteq RowLabels(merged_df)
               /\ \A i \in DOMAIN merged_df :
                     merged_df[i].index \in last'.removed
                     => /\ ~Exists(files, AudioPath(merged_df[i].song_id))
                        /\ \A j \in DOMAIN merged_df :
                              Kept(merged_df[j]) => Before(merged_df, q, i, j)
               /\ last'.dropped \cap RowLabels(merged_df') = {}
               /\ Len(last'.ret) = 1
                  => /\ last'.ret[1].index \notin last'.dropped
                     /\ \E i \in DOMAIN merged_df' : merged_df'[i] = last'.ret[1]
       ELSE merged_df' = merged_df]_vars

\* a search that returned a row while the audio file of a row dropped by an
\* earlier search was back on disk, and itself dropped another row
C11_Witness ==
    /\ last.op = "find_matching_song"
    /\ last.back # {}
    /\ last.removed # {}
    /\ Len(last.ret) = 1
    /\ Len(merged_df) >= 1

(***************************************************************************)
(* Properties of the emotion classifier adapter, under SpecEmotion.        *)
(***************************************************************************)
\* The labels of an emotions dict that hold its greatest score.
TopLabels(d) ==
    {d[k][1] : k \in {k \in DOMAIN d : \A j \in DOMAIN d : d[k][2] >= d[j][2]}}

\* C8: detect_emotion gives each of the seven known labels its fixed (valence,
\* arousal) pair, gives an unknown label (0,0), and returns (None, 0, 0) when
\* no face is detected and when the external detector raises.
C8_DetectEmotion ==
    last.op = "detect_emotion" =>
        LET d == last.arg
            label == last.ret[1]
            va == <<last.ret[2], last.ret[3]>>
        IN IF d.raises \/ Len(d.faces) = 0
           THEN last.ret = <<<<>>, 0, 0>>
           ELSE IF Len(d.faces[1]) = 0
           THEN last.ret = <<<<>>, 0, 0>>
           ELSE /\ Len(label) = 1 /\ label[1] \in TopLabels(d.faces[1])
                /\ label[1] = "happy" => va = <<8, 8>>
                /\ label[1] = "sad" => va = <<-8, -4>>
                /\ label[1] = "angry" => va = <<-7, 8>>
                /\ label[1] = "neutral" => va = <<0, 0>>
                /\ label[1] = "fear" => va = <<-8, 5>>
                /\ label[1] = "surprise" => va = <<4, 8>>
                /\ label[1] = "disgust" => va = <<-8, 1>>
                /\ label[1] \notin KnownLabels => va = <<0, 0>>

\* a face whose strongest emotion is a label outside the table
C8_Witness ==
    /\ last.op = "detect_emotion"
    /\ last.ret = <<(<<"contempt">>), 0, 0>>
    /\ Len(last.arg.faces[1]) = 2

(***************************************************************************)
(* Properties of the application's threads, under SpecApp.                 *)
(***************************************************************************)
\* The video thread is inside find_matching_song or play_song (stop_song called
\* from play_song included).
LoopInMatchOrPlay ==
    \/ pc["loop"] \in InFind \cup InPlaySong
    \/ pc["loop"] \in InStopSong \cup {"ss_check"}
\* The main thread is inside the stop_song called by stop_music or cleanup.
MainInStopSong == pc["main"] \in InStopSong

\* C9: no interleaving has the Stop Music or Exit handler inside stop_song
\* while the video thread is inside find_matching_song or play_song.
C9_SingleOwner == ~(MainInStopSong /\ LoopInMatchOrPlay)

\* C10: once cleanup has destroyed the window the stop flag is cleared, playback
\* is stopped and the capture device is released, and the video thread never
\* reads the capture device after its release.
C10_CleanShutdown ==
    /\ window = "destroyed" => (~is_running /\ ~is_playing /\ cap = "released")
    /\ ~hist.read_after_release

====
